---- MODULE Spec2Model ----
(***************************************************************************)
(* Model of the task API of src/src/server.js: an Express application with *)
(* five /tasks handlers over one SQLite table.                             *)
(*                                                                         *)
(* A text (a title, a description, the :id path segment, limit, offset,    *)
(* the String() of a value) is a sequence of characters.  A character is a *)
(* one-character string; a character that the string syntax of TLA+ cannot *)
(* write is named by its code point: "U+000B" is the vertical tab,         *)
(* "U+0060" the backtick, "U+2000" the en quad.  A JavaScript value of a   *)
(* body field is a record [type, text], its type and its String(), or      *)
(* [type |-> "array", elems], an array of such values.  A JSON body or a   *)
(* query string is a record that has a field exactly when the client sent  *)
(* it.                                                                     *)
(***************************************************************************)
EXTENDS Integers, Sequences, FiniteSets, TLC

VARIABLES
    table,      \* the rows of table tasks
    seq,        \* sqlite_sequence.seq of tasks (AUTOINCREMENT high-water mark)
    now,        \* CURRENT_TIMESTAMP, in seconds
    env,        \* NODE_ENV of the process
    inflight,   \* the request of each connection and how far it has come
    issued,     \* history: the ids that 201 responses have handed out
    deleted     \* history: the ids of the rows whose DELETE has answered 200

vars == <<table, seq, now, env, inflight, issued, deleted>>

(***************************************************************************)
(* Bounds of the model.                                                    *)
(***************************************************************************)
MaxSeq == 1        \* rows inserted in a run of Spec, SpecRow and SpecFault
MaxIds == 2        \* rows inserted in a run of SpecIds
MaxListPosts == 2  \* rows inserted in a run of SpecList, on top of its seed
MaxTime == 1       \* the clock ticks at most this often

(***************************************************************************)
(* Strings.                                                                *)
(***************************************************************************)
Max(a, b) == IF a >= b THEN a ELSE b
Min(a, b) == IF a <= b THEN a ELSE b

Digits == <<"0", "1", "2", "3", "4", "5", "6", "7", "8", "9">>
IsDigit(c) == \E i \in 1..10 : Digits[i] = c
DigitVal(c) == (CHOOSE i \in 1..10 : Digits[i] = c) - 1

\* SQL NULL in a TEXT column: a one-element sequence that is no character.
Null == <<"NULL">>

\* validator.js trim() without arguments strips the characters that the
\* regular expression \s matches, at both ends: the tab, line feed, vertical
\* tab, form feed, carriage return and space, the no-break space, U+1680,
\* U+2000 to U+200A, U+2028, U+2029, U+202F, U+205F, U+3000 and U+FEFF.
Whitespace ==
    {"\t", "\n", "U+000B", "\f", "\r", " ", "U+00A0", "U+1680",
     "U+2000", "U+2001", "U+2002", "U+2003", "U+2004", "U+2005", "U+2006",
     "U+2007", "U+2008", "U+2009", "U+200A", "U+2028", "U+2029", "U+202F",
     "U+205F", "U+3000", "U+FEFF"}
RECURSIVE LTrim(_, _)
LTrim(s, W) == IF s # <<>> /\ Head(s) \in W THEN LTrim(Tail(s), W) ELSE s
RECURSIVE RTrim(_, _)
RTrim(s, W) ==
    IF s # <<>> /\ s[Len(s)] \in W
    THEN RTrim(SubSeq(s, 1, Len(s) - 1), W)
    ELSE s
Trim(s) == RTrim(LTrim(s, Whitespace), Whitespace)

\* validator.js escape(): replaces the markup characters by HTML entities.
EscapeChar(c) ==
    CASE c = "&" -> <<"&", "a", "m", "p", ";">>
      [] c = "\"" -> <<"&", "q", "u", "o", "t", ";">>
      [] c = "'" -> <<"&", "#", "x", "2", "7", ";">>
      [] c = "<" -> <<"&", "l", "t", ";">>
      [] c = ">" -> <<"&", "g", "t", ";">>
      [] c = "/" -> <<"&", "#", "x", "2", "F", ";">>
      [] c = "\\" -> <<"&", "#", "x", "5", "C", ";">>
      [] c = "U+0060" -> <<"&", "#", "9", "6", ";">>
      [] OTHER -> <<c>>
RECURSIVE Escape(_)
Escape(s) == IF s = <<>> THEN <<>> ELSE EscapeChar(Head(s)) \o Escape(Tail(s))

RECURSIVE NatTextToInt(_)
NatTextToInt(s) ==
    IF s = <<>> THEN 0
    ELSE 10 * NatTextToInt(SubSeq(s, 1, Len(s) - 1)) + DigitVal(s[Len(s)])

RECURSIVE Pow10(_)
Pow10(k) == IF k = 0 THEN 1 ELSE 10 * Pow10(k - 1)

AllDigits(s) == \A i \in 1..Len(s) : IsDigit(s[i])

\* The position of the first character of s that is in C, 0 when none is.
FirstIn(s, C) ==
    IF \E i \in 1..Len(s) : s[i] \in C
    THEN CHOOSE i \in 1..Len(s) : s[i] \in C /\ \A j \in 1..(i - 1) : s[j] \notin C
    ELSE 0

\* The characters SQLite skips around a number: the space, tab, line feed,
\* form feed, carriage return and vertical tab (U+000B).
SqlSpace == {" ", "\t", "\n", "\f", "\r", "U+000B"}

\* SQLite's conversion of a bound TEXT value under numeric affinity.  The
\* text is a number when, between optional spaces, it is an optional sign,
\* digits with an optional point (at least one digit) and an optional
\* exponent of e, an optional sign and digits.  Of the result, num: the text
\* is a number; int: the number is an integer; n: that integer.
\*
\* The number mant * 10^k, negated when neg.
NumScaled(neg, mant, k) ==
    IF k >= 0
    THEN [num |-> TRUE, int |-> TRUE,
          n |-> (IF neg THEN 0 - 1 ELSE 1) * mant * Pow10(k)]
    ELSE [num |-> TRUE, int |-> mant % Pow10(0 - k) = 0,
          n |-> (IF neg THEN 0 - 1 ELSE 1) * (mant \div Pow10(0 - k))]

\* ip and fp: the texts before and after the point; xd: the digits of the
\* exponent, when the text has one.
NumDigits(neg, ip, fp, hasExp, xneg, xd) ==
    IF /\ AllDigits(ip) /\ AllDigits(fp)
       /\ Len(ip) + Len(fp) > 0
       /\ hasExp => (xd # <<>> /\ AllDigits(xd))
    THEN NumScaled(neg, NatTextToInt(ip \o fp),
                   (IF xneg THEN 0 - NatTextToInt(xd) ELSE NatTextToInt(xd)) - Len(fp))
    ELSE [num |-> FALSE, int |-> FALSE, n |-> 0]

\* m: the text before the exponent, p: the position of its point (0: none).
NumPoint(neg, m, p, hasExp, xneg, xd) ==
    IF p = 0
    THEN NumDigits(neg, m, <<>>, hasExp, xneg, xd)
    ELSE NumDigits(neg, SubSeq(m, 1, p - 1), SubSeq(m, p + 1, Len(m)), hasExp, xneg, xd)

\* x: the text after the exponent mark.
NumMantissa(neg, m, hasExp, x) ==
    NumPoint(neg, m, FirstIn(m, {"."}), hasExp,
             x # <<>> /\ Head(x) = "-",
             IF x # <<>> /\ Head(x) \in {"+", "-"} THEN Tail(x) ELSE x)

\* u: the text after its sign, e: the position of its exponent mark (0: none).
NumExponent(neg, u, e) ==
    IF e = 0
    THEN NumMantissa(neg, u, FALSE, <<>>)
    ELSE NumMantissa(neg, SubSeq(u, 1, e - 1), TRUE, SubSeq(u, e + 1, Len(u)))

\* t: the text without the spaces around it.
NumSigned(t) ==
    IF t # <<>> /\ Head(t) \in {"+", "-"}
    THEN NumExponent(Head(t) = "-", Tail(t), FirstIn(Tail(t), {"e", "E"}))
    ELSE NumExponent(FALSE, t, FirstIn(t, {"e", "E"}))

NumericText(s) == NumSigned(RTrim(LTrim(s, SqlSpace), SqlSpace))

\* The text becomes an integer (WHERE id = ? against the INTEGER column,
\* LIMIT ? and OFFSET ?), and the integer it becomes.
IsIntText(s) == NumericText(s).int
TextToInt(s) == NumericText(s).n

\* The decimal text of a natural number: how a client writes an id in a path.
RECURSIVE IntToText(_)
IntToText(n) ==
    IF n < 10 THEN <<Digits[n + 1]>>
    ELSE IntToText(n \div 10) \o <<Digits[(n % 10) + 1]>>

(***************************************************************************)
(* JavaScript values of the fields of req.body.                            *)
(***************************************************************************)
JsBool(x) ==
    [type |-> "boolean",
     text |-> IF x THEN <<"t", "r", "u", "e">> ELSE <<"f", "a", "l", "s", "e">>]
JsStr(s) == [type |-> "string", text |-> s]
\* A JSON number that is a natural number.
JsNum(n) == [type |-> "number", text |-> IntToText(n)]
JsNull == [type |-> "null", text |-> <<"n", "u", "l", "l">>]
\* A JSON array of strings, numbers, booleans and nulls.
JsArr(es) == [type |-> "array", elems |-> es]

\* The truthiness of a value, as in  completed ? 1 : 0  and  !!completed:
\* false, the empty string, 0 and null are falsy, every other value (an
\* array or an object among them) is truthy.
JsTruthy(v) ==
    CASE v.type = "boolean" -> v.text = <<"t", "r", "u", "e">>
      [] v.type = "string" -> v.text # <<>>
      [] v.type = "number" -> v.text # <<"0">>
      [] v.type \in {"undefined", "null"} -> FALSE
      [] OTHER -> TRUE

\* express-validator hands a validator or a sanitizer the text of a value:
\* the empty text for null, String(value) otherwise.
ToStr(v) == IF v.type \in {"undefined", "null"} THEN <<>> ELSE v.text

\* express-validator applies a validator or a sanitizer to each element of
\* a value that is an array, and to the value itself otherwise.
Elems(v) == IF v.type = "array" THEN v.elems ELSE <<v>>

\* validator.isBoolean on a text.
IsBooleanText(t) ==
    t \in {<<"t", "r", "u", "e">>, <<"f", "a", "l", "s", "e">>, <<"1">>, <<"0">>}

\* express-validator isBoolean(): an array fails when one of its elements
\* fails, so the empty array passes.
IsBoolean(v) == \A i \in DOMAIN Elems(v) : IsBooleanText(ToStr(Elems(v)[i]))

\* express-validator notEmpty(): the text of the value, or of each element
\* of an array, has a character; the empty array passes.
NotEmpty(v) == \A i \in DOMAIN Elems(v) : ToStr(Elems(v)[i]) # <<>>

\* express-validator trim().escape(): a text for a value, an array of texts
\* for an array.
SanitizeValue(v) ==
    IF v.type = "array"
    THEN JsArr([i \in DOMAIN v.elems |-> JsStr(Escape(Trim(ToStr(v.elems[i]))))])
    ELSE JsStr(Escape(Trim(ToStr(v))))

\* Array.prototype.toString: the texts of the elements, null as the empty
\* text, with a comma between them.
RECURSIVE JoinText(_)
JoinText(es) ==
    IF es = <<>> THEN <<>>
    ELSE IF Len(es) = 1 THEN ToStr(es[1])
    ELSE ToStr(es[1]) \o <<",">> \o JoinText(Tail(es))

\* node-sqlite3 binds a string as TEXT, and an array as the TEXT of its
\* String().
BindText(v) == IF v.type = "array" THEN JoinText(v.elems) ELSE v.text

Has(r, f) == f \in DOMAIN r

\* A body or a query string without fields.
NoFields == [k \in {} |-> 0]

(***************************************************************************)
(* validateTask (lines 46-50).  The chain of a field runs in the order it  *)
(* is written: notEmpty() sees the title the client sent, trim() and       *)
(* escape() then rewrite req.body.title.                                   *)
(***************************************************************************)
TitleErrors(b) ==
    IF ~Has(b, "title") \/ ~NotEmpty(b.title)
    THEN {[path |-> "title", msg |-> "Title is required"]}
    ELSE {}

CompletedErrors(b) ==
    IF Has(b, "completed") /\ ~IsBoolean(b.completed)
    THEN {[path |-> "completed", msg |-> "Completed must be a boolean"]}
    ELSE {}

validationResult(b) == TitleErrors(b) \cup CompletedErrors(b)

\* req.body once validateTask has run.
Sanitize(b) ==
    [k \in DOMAIN b |->
        CASE k = "title" -> SanitizeValue(b.title)
          [] k = "description" -> SanitizeValue(b.description)
          [] OTHER -> b[k]]

\* The bound parameters [title, description, completed ? 1 : 0]; node-sqlite3
\* leaves an undefined parameter unbound, which SQLite reads as NULL.
TaskParams(sb) ==
    [title |-> BindText(sb.title),
     description |-> IF Has(sb, "description") THEN BindText(sb.description) ELSE Null,
     completed |-> IF Has(sb, "completed") /\ JsTruthy(sb.completed) THEN 1 ELSE 0]

(***************************************************************************)
(* The Store: table tasks (lines 21-30) and the five statements.  A        *)
(* statement is one atomic step of SQLite; io = "fail" is a statement that *)
(* SQLite ends with an error (disk, corruption), which changes nothing.    *)
(* The result of a statement is the table it leaves and what its callback  *)
(* is given: err, this.lastID and this.changes, or err and the rows.       *)
(***************************************************************************)
Ids(tbl) == {r.id : r \in tbl}
MaxRowid(tbl) == IF tbl = {} THEN 0 ELSE CHOOSE m \in Ids(tbl) : \A i \in Ids(tbl) : i <= m

\* INTEGER PRIMARY KEY without AUTOINCREMENT: one more than the largest
\* rowid in the table.
NewRowidNoAutoincrement(tbl, sq) == MaxRowid(tbl) + 1

\* INTEGER PRIMARY KEY AUTOINCREMENT: one more than the largest rowid the
\* table has ever held.
NewRowid(tbl, sq) == Max(sq, MaxRowid(tbl)) + 1

\* WHERE id = ? with the path segment bound as TEXT against an INTEGER column.
IdMatches(rowid, text) == IsIntText(text) /\ TextToInt(text) = rowid

\* INSERT INTO tasks (title, description, completed) VALUES (?, ?, ?)
DbInsert(tbl, sq, p, t, io) ==
    IF io = "fail"
    THEN [err |-> TRUE, table |-> tbl, seq |-> sq, lastID |-> 0, changes |-> 0]
    ELSE LET id == NewRowid(tbl, sq)
             row == [id |-> id, title |-> p.title, description |-> p.description,
                     completed |-> p.completed, created_at |-> t, updated_at |-> t]
         IN  [err |-> FALSE, table |-> tbl \cup {row}, seq |-> id,
              lastID |-> id, changes |-> 1]

\* The UPDATE without its WHERE clause.
DbUpdateNoWhere(tbl, p, idText, t, io) ==
    IF io = "fail"
    THEN [err |-> TRUE, table |-> tbl, changes |-> 0]
    ELSE LET set(r) == [r EXCEPT !.title = p.title, !.description = p.description,
                                 !.completed = p.completed, !.updated_at = t]
         IN  [err |-> FALSE, table |-> {set(r) : r \in tbl}, changes |-> Cardinality(tbl)]

\* UPDATE tasks SET title = ?, description = ?, completed = ?,
\*   updated_at = CURRENT_TIMESTAMP WHERE id = ?
DbUpdate(tbl, p, idText, t, io) ==
    IF io = "fail"
    THEN [err |-> TRUE, table |-> tbl, changes |-> 0]
    ELSE LET hit == {r \in tbl : IdMatches(r.id, idText)}
             set(r) == [r EXCEPT !.title = p.title, !.description = p.description,
                                 !.completed = p.completed, !.updated_at = t]
         IN  [err |-> FALSE,
              table |-> (tbl \ hit) \cup {set(r) : r \in hit},
              changes |-> Cardinality(hit)]

\* DELETE FROM tasks WHERE id = ?
DbDelete(tbl, idText, io) ==
    IF io = "fail"
    THEN [err |-> TRUE, table |-> tbl, changes |-> 0]
    ELSE LET hit == {r \in tbl : IdMatches(r.id, idText)}
         IN  [err |-> FALSE, table |-> tbl \ hit, changes |-> Cardinality(hit)]

\* SELECT * FROM tasks WHERE id = ?  (db.get: the first row, or none)
DbGet(tbl, idText, io) ==
    IF io = "fail"
    THEN [err |-> TRUE, rows |-> {}]
    ELSE [err |-> FALSE, rows |-> {r \in tbl : IdMatches(r.id, idText)}]

\* ORDER BY created_at DESC.  SQL leaves the order of rows with equal
\* created_at open; tie is the order the engine takes among them, by rowid
\* ascending or descending.
Before(r1, r2, tie) ==
    \/ r1.created_at > r2.created_at
    \/ /\ r1.created_at = r2.created_at
       /\ IF tie = "asc" THEN r1.id <= r2.id ELSE r1.id >= r2.id
\* ORDER BY created_at ASC.
RECURSIVE OrderByCreatedAsc(_, _)
OrderByCreatedAsc(S, tie) ==
    IF S = {} THEN <<>>
    ELSE LET first == CHOOSE r \in S : \A o \in S : Before(o, r, tie)
         IN  <<first>> \o OrderByCreatedAsc(S \ {first}, tie)

RECURSIVE OrderByCreatedDesc(_, _)
OrderByCreatedDesc(S, tie) ==
    IF S = {} THEN <<>>
    ELSE LET first == CHOOSE r \in S : \A o \in S : Before(r, o, tie)
         IN  <<first>> \o OrderByCreatedDesc(S \ {first}, tie)

\* LIMIT ? OFFSET ?: a negative limit is no limit, a negative offset is 0.
LimitOffset(rows, limit, offset) ==
    LET from == Max(offset, 0) + 1
        to == IF limit < 0 THEN Len(rows) ELSE Min(Len(rows), from + limit - 1)
    IN  SubSeq(rows, from, to)

DefaultLimit == 10
DefaultOffset == 0

\* A LIMIT or OFFSET parameter: the default number, or the text of the query
\* string; SQLite ends the statement with "datatype mismatch" when the text
\* is no integer.
PageParam(q, f, default) ==
    IF ~Has(q, f) THEN [int |-> TRUE, n |-> default]
    ELSE IF IsIntText(q[f]) THEN [int |-> TRUE, n |-> TextToInt(q[f])]
    ELSE [int |-> FALSE, n |-> 0]

\* SELECT * FROM tasks [WHERE completed = ?] ORDER BY created_at DESC
\*   LIMIT ? OFFSET ?
DbAll(tbl, q, tie, io) ==
    LET limit == PageParam(q, "limit", DefaultLimit)
        offset == PageParam(q, "offset", DefaultOffset)
        want == IF q.completed = "true" THEN 1 ELSE 0
        hit == IF Has(q, "completed") THEN {r \in tbl : r.completed = want} ELSE tbl
    IN  IF io = "fail" \/ ~limit.int \/ ~offset.int
        THEN [err |-> TRUE, rows |-> <<>>]
        ELSE [err |-> FALSE,
              rows |-> LimitOffset(OrderByCreatedDesc(hit, tie), limit.n, offset.n)]

(***************************************************************************)
(* The application's middleware stack, in the order of the app.use and     *)
(* app.METHOD calls.  next(err) from a layer goes to the first error-      *)
(* handling layer (four parameters) after it; when there is none, Express  *)
(* answers with its final handler: status 500 and an HTML page that holds  *)
(* err.stack unless NODE_ENV is production.                                *)
(***************************************************************************)
AppStack ==
    <<"express.json", "errorHandler", "GET /", "POST /tasks", "GET /tasks",
      "GET /tasks/:id", "PUT /tasks/:id", "DELETE /tasks/:id">>

IsErrorLayer(l) == l = "errorHandler"

LayerOf(route) == CHOOSE i \in 1..Len(AppStack) : AppStack[i] = route

errorHandler == [status |-> 500, error |-> "Something went wrong!"]

FinalHandler(e) ==
    [status |-> 500,
     html |-> IF e = "production" THEN "Internal Server Error" ELSE "err.stack"]

NextErr(route, e) ==
    IF \E i \in (LayerOf(route) + 1)..Len(AppStack) : IsErrorLayer(AppStack[i])
    THEN errorHandler
    ELSE FinalHandler(e)

NotFound == [status |-> 404, message |-> "Task not found"]

(***************************************************************************)
(* The responses of the five handlers, from the result of their statement. *)
(***************************************************************************)
BadRequest(errors) == [status |-> 400, errors |-> errors]

\* res.status(201).json({ id: this.lastID, title, description, completed: !!completed })
PostResponse(r, sb, e) ==
    IF r.err THEN NextErr("POST /tasks", e)
    ELSE LET done == Has(sb, "completed") /\ JsTruthy(sb.completed)
         IN  IF Has(sb, "description")
             THEN [status |-> 201, id |-> r.lastID, title |-> sb.title,
                   description |-> sb.description, completed |-> done]
             ELSE [status |-> 201, id |-> r.lastID, title |-> sb.title,
                   completed |-> done]

ListResponse(r, e) ==
    IF r.err THEN NextErr("GET /tasks", e)
    ELSE [status |-> 200, tasks |-> r.rows, count |-> Len(r.rows)]

GetResponse(r, e) ==
    IF r.err THEN NextErr("GET /tasks/:id", e)
    ELSE IF r.rows = {} THEN NotFound
    ELSE [status |-> 200, task |-> CHOOSE row \in r.rows : TRUE]

PutResponse(r, idText, e) ==
    IF r.err THEN NextErr("PUT /tasks/:id", e)
    ELSE IF r.changes = 0 THEN NotFound
    ELSE [status |-> 200, message |-> "Task updated", taskId |-> idText]

DeleteResponse(r, idText, e) ==
    IF r.err THEN NextErr("DELETE /tasks/:id", e)
    ELSE IF r.changes = 0 THEN NotFound
    ELSE [status |-> 200, message |-> "Task deleted", taskId |-> idText]

(***************************************************************************)
(* Requests.  A handler runs up to its db call, which queues the statement *)
(* and returns to the event loop (the five Receive actions); a body that   *)
(* validateTask rejects is answered by the handler itself.  SQLite runs    *)
(* the queued statements one at a time, in any order (RunStatement).  The  *)
(* callback of a statement then sends the response (Callback).  Handlers,  *)
(* statements and callbacks of different connections interleave.           *)
(*                                                                         *)
(* Of the request of a connection: pc is how far it has come (queued: its  *)
(* statement waits; ran: the statement has run; done: the response is      *)
(* sent), stmts counts its db.run, db.get and db.all calls, sent the       *)
(* responses sent for it, wrote is the id of the row its statement wrote   *)
(* (0: none), and fresh holds until another statement writes that row.     *)
(***************************************************************************)
\* Two connections: one whose request is answered, one that interleaves.
Conns == {"c1", "c2"}

Idle == [pc |-> "idle"]

Ready(c) == inflight[c].pc \in {"idle", "done"}

\* The handler answers without a statement.
Reply(c, req, res) ==
    inflight' = [inflight EXCEPT ![c] =
        [pc |-> "done", req |-> req, res |-> res,
         stmts |-> 0, sent |-> 1, wrote |-> 0, fresh |-> FALSE]]

\* The handler queues its statement and returns.
Queue(c, req, sb) ==
    inflight' = [inflight EXCEPT ![c] =
        [pc |-> "queued", req |-> req, sb |-> sb, stmts |-> 1, sent |-> 0]]

\* app.post('/tasks', validateTask, ...)
ReceivePost(c, b) ==
    LET errors == validationResult(b)
        req == [op |-> "POST", body |-> b]
    IN  /\ Ready(c)
        /\ IF errors # {} THEN Reply(c, req, BadRequest(errors))
                          ELSE Queue(c, req, Sanitize(b))
        /\ UNCHANGED <<table, seq, now, env, issued, deleted>>

\* app.put('/tasks/:id', validateTask, ...)
ReceivePut(c, idText, b) ==
    LET errors == validationResult(b)
        req == [op |-> "PUT", id |-> idText, body |-> b]
    IN  /\ Ready(c)
        /\ IF errors # {} THEN Reply(c, req, BadRequest(errors))
                          ELSE Queue(c, req, Sanitize(b))
        /\ UNCHANGED <<table, seq, now, env, issued, deleted>>

\* app.get('/tasks/:id', ...)
ReceiveGet(c, idText) ==
    /\ Ready(c)
    /\ Queue(c, [op |-> "GET", id |-> idText], NoFields)
    /\ UNCHANGED <<table, seq, now, env, issued, deleted>>

\* app.delete('/tasks/:id', ...)
ReceiveDelete(c, idText) ==
    /\ Ready(c)
    /\ Queue(c, [op |-> "DELETE", id |-> idText], NoFields)
    /\ UNCHANGED <<table, seq, now, env, issued, deleted>>

\* app.get('/tasks', ...)
ReceiveList(c, q) ==
    /\ Ready(c)
    /\ Queue(c, [op |-> "LIST", query |-> q], NoFields)
    /\ UNCHANGED <<table, seq, now, env, issued, deleted>>

\* The result of the statement of request f on the table as it is now.
StatementResult(f, tie, io) ==
    CASE f.req.op = "POST" -> DbInsert(table, seq, TaskParams(f.sb), now, io)
      [] f.req.op = "PUT" -> DbUpdate(table, TaskParams(f.sb), f.req.id, now, io)
      [] f.req.op = "DELETE" -> DbDelete(table, f.req.id, io)
      [] f.req.op = "GET" -> DbGet(table, f.req.id, io)
      [] OTHER -> DbAll(table, f.req.query, tie, io)

\* What the callback of a statement with result r is given.
CallbackArgs(r) == [k \in DOMAIN r \ {"table", "seq"} |-> r[k]]

\* The id of the row that a statement with result r wrote, 0 when none.
Wrote(f, r) ==
    CASE f.req.op = "POST" -> r.lastID
      [] f.req.op \in {"PUT", "DELETE"} /\ r.changes > 0 -> TextToInt(f.req.id)
      [] OTHER -> 0

\* SQLite runs the statement of connection c.
RunStatement(c, tie, io) ==
    LET f == inflight[c]
        r == StatementResult(f, tie, io)
        w == Wrote(f, r)
        written == f.req.op \in {"POST", "PUT", "DELETE"}
        stale(d) == w # 0 /\ inflight[d].pc \in {"ran", "done"} /\ inflight[d].wrote = w
    IN  /\ f.pc = "queued"
        /\ table' = IF written THEN r.table ELSE table
        /\ seq' = IF f.req.op = "POST" THEN r.seq ELSE seq
        /\ inflight' = [d \in Conns |->
              IF d = c
              THEN [pc |-> "ran", req |-> f.req, sb |-> f.sb, result |-> CallbackArgs(r),
                    stmts |-> f.stmts, sent |-> f.sent, wrote |-> w, fresh |-> w # 0]
              ELSE IF stale(d) THEN [inflight[d] EXCEPT !.fresh = FALSE]
              ELSE inflight[d]]
        /\ UNCHANGED <<now, env, issued, deleted>>

\* The response that the callback of request f sends.
CallbackResponse(f, e) ==
    CASE f.req.op = "POST" -> PostResponse(f.result, f.sb, e)
      [] f.req.op = "PUT" -> PutResponse(f.result, f.req.id, e)
      [] f.req.op = "DELETE" -> DeleteResponse(f.result, f.req.id, e)
      [] f.req.op = "GET" -> GetResponse(f.result, e)
      [] OTHER -> ListResponse(f.result, e)

\* The response sent from the handler, outside the callback: before the
\* statement has run.
CallbackEarly(c) ==
    LET f == inflight[c]
        r == StatementResult(f, "asc", "ok")
        res == CallbackResponse([req |-> f.req, sb |-> f.sb, result |-> r], env)
    IN  /\ f.pc = "queued"
        /\ inflight' = [inflight EXCEPT ![c] =
              [pc |-> "done", req |-> f.req, res |-> res,
               stmts |-> f.stmts, sent |-> f.sent + 1, wrote |-> Wrote(f, r),
               fresh |-> Wrote(f, r) # 0]]
        /\ UNCHANGED <<table, seq, now, env, issued, deleted>>

\* The callback of the statement of connection c runs.
Callback(c) ==
    LET f == inflight[c]
        res == CallbackResponse(f, env)
    IN  /\ f.pc = "ran"
        /\ inflight' = [inflight EXCEPT ![c] =
              [pc |-> "done", req |-> f.req, res |-> res,
               stmts |-> f.stmts, sent |-> f.sent + 1, wrote |-> f.wrote,
               fresh |-> f.fresh]]
        /\ issued' = IF f.req.op = "POST" /\ res.status = 201
                     THEN issued \cup {res.id} ELSE issued
        /\ deleted' = IF f.req.op = "DELETE" /\ res.status = 200
                      THEN deleted \cup {f.wrote} ELSE deleted
        /\ UNCHANGED <<table, seq, now, env>>

\* A second passes.
Tick ==
    /\ now < MaxTime
    /\ now' = now + 1
    /\ UNCHANGED <<table, seq, env, inflight, issued, deleted>>

\* The inserts that have run or wait to run.
Inserts == seq + Cardinality({c \in Conns : /\ inflight[c].pc = "queued"
                                             /\ inflight[c].req.op = "POST"})

(***************************************************************************)
(* Inputs.                                                                 *)
(***************************************************************************)
\* Bodies that pass validateTask.
ValidBodies ==
    { [title |-> JsStr(<<"a">>)],
      [title |-> JsStr(<<"U+00A0", "<", "'", "U+0060">>),
       description |-> JsStr(<<"\"", "\\", "U+2028">>),
       completed |-> JsBool(TRUE)],
      [title |-> JsStr(<<"a">>), completed |-> JsNum(0)],
      [title |-> JsStr(<<"a">>), completed |-> JsStr(<<"f", "a", "l", "s", "e">>)],
      [title |-> JsStr(<<"a">>), completed |-> JsArr(<<>>)],
      [title |-> JsStr(<<"a">>), completed |-> JsArr(<<JsStr(<<"1">>), JsStr(<<"0">>)>>)],
      [title |-> JsStr(<<" ", "\t", "U+2000">>)],
      [title |-> JsArr(<<>>)],
      [title |-> JsArr(<<JsStr(<<" ", "a">>), JsStr(<<"/">>)>>),
       description |-> JsNull] }

\* Bodies that validateTask rejects.
InvalidBodies ==
    { NoFields,
      [description |-> JsStr(<<"d">>)],
      [title |-> JsStr(<<>>), completed |-> JsBool(TRUE)],
      [title |-> JsStr(<<"a">>), completed |-> JsStr(<<"m", "a", "y", "b", "e">>)],
      [title |-> JsStr(<<"a">>), completed |-> JsArr(<<JsStr(<<"1">>), JsStr(<<"x">>)>>)],
      [title |-> JsStr(<<"a">>), completed |-> JsNull],
      [title |-> JsArr(<<JsStr(<<"a">>), JsStr(<<>>)>>)] }

Bodies == ValidBodies \cup InvalidBodies

\* Two bodies that pass validateTask, with the bodies that it rejects.
RowBodies ==
    { [title |-> JsStr(<<"a">>)],
      [title |-> JsStr(<<"b">>), completed |-> JsNum(1)] } \cup InvalidBodies

\* The body of the POST and the body of the PUT of the runs that are about
\* ids, faults and lists.
PostBodies == { [title |-> JsStr(<<"a">>)] }
PutBodies == { [title |-> JsStr(<<"a">>), completed |-> JsBool(TRUE)] }

\* The :id segments of the ids of n rows, in decimal.
RowIds(n) == {IntToText(i) : i \in 1..n}

\* The :id segments a client sends: the ids of n rows and one that no row
\* has yet, in decimal; 1 written with a fraction and between spaces; and
\* one that is no number.
PathIds(n) == RowIds(n + 1) \cup {<<"1", ".", "0">>, <<" ", "1", "U+000B">>, <<"x">>}

Queries ==
    { NoFields,
      [completed |-> "true"],
      [completed |-> "false"],
      [limit |-> <<"1", ".", "0">>, offset |-> <<"+", "1">>] }

BadQueries == { [limit |-> <<"x">>], [offset |-> <<"1", ".", "5">>] }

Ties == {"asc", "desc"}
Envs == {"development", "production"}
IOs == {"ok", "fail"}

(***************************************************************************)
(* Spec: requests of every kind on one row, with every kind of body, to a  *)
(* Store whose statements do not fail, while the clock runs.               *)
(***************************************************************************)
Init ==
    /\ table = {}
    /\ seq = 0
    /\ now = 0
    /\ env = "development"
    /\ inflight = [c \in Conns |-> Idle]
    /\ issued = {}
    /\ deleted = {}

Next ==
    \/ \E c \in Conns, b \in Bodies : Inserts < MaxSeq /\ ReceivePost(c, b)
    \/ \E c \in Conns, id \in RowIds(MaxSeq), b \in Bodies : ReceivePut(c, id, b)
    \/ \E c \in Conns, id \in RowIds(MaxSeq) : ReceiveGet(c, id)
    \/ \E c \in Conns, id \in RowIds(MaxSeq) : ReceiveDelete(c, id)
    \/ \E c \in Conns : ReceiveList(c, NoFields)
    \/ \E c \in Conns, tie \in Ties : RunStatement(c, tie, "ok")
    \/ \E c \in Conns : Callback(c)
    \/ Tick

Spec == Init /\ [][Next]_vars

(***************************************************************************)
(* SpecRow: the same requests with two valid bodies and the rejected ones, *)
(* and a clock that stands still.                                          *)
(***************************************************************************)
NextRow ==
    \/ \E c \in Conns, b \in RowBodies : Inserts < MaxSeq /\ ReceivePost(c, b)
    \/ \E c \in Conns, id \in RowIds(MaxSeq), b \in RowBodies : ReceivePut(c, id, b)
    \/ \E c \in Conns, id \in RowIds(MaxSeq) : ReceiveGet(c, id)
    \/ \E c \in Conns, id \in RowIds(MaxSeq) : ReceiveDelete(c, id)
    \/ \E c \in Conns : ReceiveList(c, NoFields)
    \/ \E c \in Conns, tie \in Ties : RunStatement(c, tie, "ok")
    \/ \E c \in Conns : Callback(c)

SpecRow == Init /\ [][NextRow]_vars

(***************************************************************************)
(* SpecIds: more rows and more ways to write an id, with one body for POST *)
(* and one for PUT.                                                        *)
(***************************************************************************)
NextIds ==
    \/ \E c \in Conns, b \in PostBodies : Inserts < MaxIds /\ ReceivePost(c, b)
    \/ \E c \in Conns, id \in PathIds(MaxIds), b \in PutBodies : ReceivePut(c, id, b)
    \/ \E c \in Conns, id \in PathIds(MaxIds) : ReceiveGet(c, id)
    \/ \E c \in Conns, id \in PathIds(MaxIds) : ReceiveDelete(c, id)
    \/ \E c \in Conns : RunStatement(c, "asc", "ok")
    \/ \E c \in Conns : Callback(c)

SpecIds == Init /\ [][NextIds]_vars

(***************************************************************************)
(* SpecFault: a Store whose statements may fail, queries that SQLite       *)
(* rejects, and either NODE_ENV.                                           *)
(***************************************************************************)
InitFault ==
    /\ table = {}
    /\ seq = 0
    /\ now = 0
    /\ env \in Envs
    /\ inflight = [c \in Conns |-> Idle]
    /\ issued = {}
    /\ deleted = {}

NextFault ==
    \/ \E c \in Conns, b \in PostBodies : Inserts < MaxSeq /\ ReceivePost(c, b)
    \/ \E c \in Conns, id \in PathIds(MaxSeq), b \in PutBodies : ReceivePut(c, id, b)
    \/ \E c \in Conns, id \in PathIds(MaxSeq) : ReceiveGet(c, id)
    \/ \E c \in Conns, id \in PathIds(MaxSeq) : ReceiveDelete(c, id)
    \/ \E c \in Conns, q \in Queries \cup BadQueries : ReceiveList(c, q)
    \/ \E c \in Conns, tie \in Ties, io \in IOs : RunStatement(c, tie, io)
    \/ \E c \in Conns : Callback(c)

SpecFault == InitFault /\ [][NextFault]_vars

(***************************************************************************)
(* SpecList: the process starts on a database file that an earlier run     *)
(* left behind (CREATE TABLE IF NOT EXISTS keeps its rows): one row short  *)
(* of a full page, every second row completed.                             *)
(***************************************************************************)
SeedRows == DefaultLimit - 1

SeedTable ==
    { [id |-> i, title |-> <<"a">>, description |-> Null, completed |-> i % 2,
       created_at |-> 0, updated_at |-> 0] : i \in 1..SeedRows }

InitList ==
    /\ table = SeedTable
    /\ seq = SeedRows
    /\ now = 0
    /\ env = "development"
    /\ inflight = [c \in Conns |-> Idle]
    /\ issued = {}
    /\ deleted = {}

NextList ==
    \/ \E c \in Conns, b \in PostBodies \cup PutBodies :
          Inserts < SeedRows + MaxListPosts /\ ReceivePost(c, b)
    \/ \E c \in Conns, q \in Queries : ReceiveList(c, q)
    \/ \E c \in Conns, tie \in Ties : RunStatement(c, tie, "ok")
    \/ \E c \in Conns : Callback(c)
    \/ Tick

SpecList == InitList /\ [][NextList]_vars

(***************************************************************************)
(* What the specification says of a body, stated apart from validateTask.  *)
(***************************************************************************)
\* The text the specification stores for a submitted string: trimmed, with
\* the markup characters neutralised.
Stored(v) == Escape(Trim(v.text))

\* The boolean that a submitted completed stands for; false when omitted.
\* An array or null is no boolean.
ParsesAsBoolean(v) ==
    /\ v.type \in {"boolean", "string", "number"}
    /\ v.text \in {<<"t", "r", "u", "e">>, <<"f", "a", "l", "s", "e">>, <<"1">>, <<"0">>}
SubmittedCompleted(b) ==
    /\ Has(b, "completed")
    /\ b.completed.type \in {"boolean", "string", "number"}
    /\ b.completed.text \in {<<"t", "r", "u", "e">>, <<"1">>}

\* A body the specification accepts: a title that is a string, non-empty
\* after trimming, a description, if any, that is a string, and a
\* completed, if any, that parses as a boolean.
ValidBody(b) ==
    /\ Has(b, "title")
    /\ b.title.type = "string"
    /\ Trim(b.title.text) # <<>>
    /\ Has(b, "description") => b.description.type = "string"
    /\ Has(b, "completed") => ParsesAsBoolean(b.completed)

\* A body with no title, an empty title, or a completed that is no boolean.
RejectedBody(b) ==
    \/ ~Has(b, "title")
    \/ b.title = JsStr(<<>>)
    \/ Has(b, "completed") /\ ~ParsesAsBoolean(b.completed)

\* No row has the id that the path segment stands for.
NoRowHas(idText) == \A r \in table : ~IdMatches(r.id, idText)

(***************************************************************************)
(* The steps of a request, read off two successive states.                 *)
(***************************************************************************)
\* The handler of a request of connection c runs.
Received(c) ==
    /\ inflight[c].pc \in {"idle", "done"}
    /\ inflight'[c] # inflight[c]

\* The statement of the request of connection c runs.
Ran(c) == inflight[c].pc = "queued" /\ inflight'[c].pc = "ran"

\* The callback of the request of connection c sends its response.
Answered(c) == inflight[c].pc = "ran" /\ inflight'[c].pc = "done"

\* The request of connection c is of kind op and has been answered status.
Done(c, op, status) ==
    /\ inflight[c].pc = "done"
    /\ inflight[c].req.op = op
    /\ inflight[c].res.status = status

(***************************************************************************)
(* C1.  Every persisted row has a non-empty title: a title that is         *)
(* missing, empty, or empty after trimming is never stored.                *)
(***************************************************************************)
C1_TitleNeverEmpty == \A r \in table : r.title # <<>>

(***************************************************************************)
(* C2.  A POST or PUT whose body has no title, an empty title or a         *)
(* completed that is no boolean is answered 400 with a list of field       *)
(* errors by its handler, leaves the table as it was, and never has a      *)
(* statement queued or run.                                                *)
(***************************************************************************)
C2_InvalidBodyRejected ==
    [][\A c \in Conns :
          LET f == inflight'[c]
          IN  /\ (/\ Received(c)
                  /\ f.req.op \in {"POST", "PUT"}
                  /\ RejectedBody(f.req.body))
                 => /\ f.pc = "done"
                    /\ f.res.status = 400
                    /\ f.res.errors # {}
                    /\ f.stmts = 0
                    /\ table' = table
                    /\ seq' = seq
              /\ (f.pc \in {"queued", "ran"} /\ f.req.op \in {"POST", "PUT"})
                 => ~RejectedBody(f.req.body)]_vars

(***************************************************************************)
(* C3.  Ids are never reused or mutated: the id of each 201 response is a  *)
(* positive integer that no earlier 201 response handed out, also when the *)
(* task of the earlier one has been deleted since; an INSERT adds one row  *)
(* under an id that no row has; no PUT changes the ids of the rows; no two *)
(* rows share an id.                                                       *)
(***************************************************************************)
C3_IdsNeverReused ==
    [][/\ \A c \in Conns :
            LET f == inflight[c]
                g == inflight'[c]
            IN  /\ (Answered(c) /\ f.req.op = "POST" /\ g.res.status = 201)
                   => /\ g.res.id > 0
                      /\ g.res.id \notin issued
                      /\ g.res.id = f.result.lastID
                /\ (Ran(c) /\ f.req.op = "POST")
                   => /\ g.result.lastID \notin Ids(table)
                      /\ Ids(table') = Ids(table) \cup {g.result.lastID}
                      /\ table \subseteq table'
                /\ (Ran(c) /\ f.req.op = "PUT")
                   => /\ Ids(table') = Ids(table)
                      /\ Cardinality(table') = Cardinality(table)
       /\ Cardinality(Ids(table')) = Cardinality(table')]_vars

\* A POST was answered 201 after every earlier task had been deleted.
C3_Witness ==
    \E c \in Conns :
        /\ Done(c, "POST", 201)
        /\ deleted # {}
        /\ Ids(table) = {inflight[c].res.id}
        /\ issued = deleted \cup Ids(table)

(***************************************************************************)
(* C4.  A storage error raised by the statement of any of the five         *)
(* handlers is answered with status 500 and the generic JSON body of the   *)
(* application's error handler, with no detail of the error.               *)
(***************************************************************************)
C4_StorageErrorGeneric ==
    [][\A c \in Conns :
          (Answered(c) /\ inflight[c].result.err)
          => inflight'[c].res = [status |-> 500, error |-> "Something went wrong!"]]_vars

(***************************************************************************)
(* C5.  For every valid body, a GET with the id that the 201 of a POST     *)
(* returned, whose statement runs after that response and before any other *)
(* statement writes the row, reads a task with the submitted title and     *)
(* description (as the specification stores them), the submitted completed *)
(* (false when omitted), a positive id, and created_at equal to            *)
(* updated_at; and the callback of a GET answers 200 with the task read.   *)
(***************************************************************************)
C5_PostThenGet ==
    [][/\ \A c \in Conns, d \in Conns :
            (/\ Done(c, "POST", 201)
             /\ inflight[c].fresh
             /\ ValidBody(inflight[c].req.body)
             /\ Ran(d)
             /\ inflight[d].req.op = "GET"
             /\ inflight[d].req.id = IntToText(inflight[c].res.id))
            => LET b == inflight[c].req.body
                   rows == inflight'[d].result.rows
               IN  /\ Cardinality(rows) = 1
                   /\ \A t \in rows :
                         /\ t.id = inflight[c].res.id
                         /\ t.id > 0
                         /\ t.title = Stored(b.title)
                         /\ t.description =
                               IF Has(b, "description") THEN Stored(b.description) ELSE Null
                         /\ (t.completed = 1) = SubmittedCompleted(b)
                         /\ t.created_at = t.updated_at
       /\ \A d \in Conns :
            (Answered(d) /\ inflight[d].req.op = "GET" /\ inflight[d].result.rows # {})
            => /\ inflight'[d].res.status = 200
               /\ inflight'[d].res.task \in inflight[d].result.rows]_vars

(***************************************************************************)
(* C7.  After a PUT answered 200, a GET of the same id whose statement     *)
(* runs before any other statement writes the row reads the title,         *)
(* description and completed of the PUT body (a full replace: an omitted   *)
(* description is null, an omitted completed false); the statement of a    *)
(* PUT leaves created_at of every row as it was and sets updated_at of its *)
(* row to the current time; and updated_at >= created_at in every row.     *)
(***************************************************************************)
C7_PutThenGet ==
    [][/\ \A c \in Conns, d \in Conns :
            (/\ Done(c, "PUT", 200)
             /\ inflight[c].fresh
             /\ ValidBody(inflight[c].req.body)
             /\ Ran(d)
             /\ inflight[d].req.op = "GET"
             /\ inflight[d].req.id = inflight[c].req.id)
            => LET b == inflight[c].req.body
                   rows == inflight'[d].result.rows
               IN  /\ Cardinality(rows) = 1
                   /\ \A t \in rows :
                         /\ t.title = Stored(b.title)
                         /\ t.description =
                               IF Has(b, "description") THEN Stored(b.description) ELSE Null
                         /\ (t.completed = 1) = SubmittedCompleted(b)
       /\ \A c \in Conns :
            (Ran(c) /\ inflight[c].req.op = "PUT")
            => /\ \A r \in table : \E r2 \in table' :
                     r2.id = r.id /\ r2.created_at = r.created_at
               /\ \A r2 \in table' :
                     IdMatches(r2.id, inflight[c].req.id) => r2.updated_at = now
       /\ \A r \in table' : r.updated_at >= r.created_at]_vars

(***************************************************************************)
(* C6.  The statement of GET /tasks?completed=true reads only completed    *)
(* tasks; the statement of GET /tasks with no parameter reads the tasks    *)
(* newest first by created_at; the callback answers 200 with the tasks     *)
(* read and count their number.  As claimed, all tasks of the table are    *)
(* read (C6_ListReturnsAll); as amended, the newest 10 when the table      *)
(* holds more than 10 (C6_ListReturnsPage).                                *)
(***************************************************************************)
Listed(c, q) ==
    /\ Ran(c)
    /\ inflight[c].req.op = "LIST"
    /\ inflight[c].req.query = q

Range(rows) == {rows[i] : i \in 1..Len(rows)}

NewestFirst(rows) ==
    \A i \in 1..Len(rows), j \in 1..Len(rows) :
        i < j => rows[i].created_at >= rows[j].created_at

OnlyCompleted(c) ==
    Listed(c, [completed |-> "true"])
    => \A r \in Range(inflight'[c].result.rows) : r \in table /\ r.completed = 1

ListAnswered(c) ==
    (Answered(c) /\ inflight[c].req.op = "LIST")
    => /\ inflight'[c].res.status = 200
       /\ inflight'[c].res.tasks = inflight[c].result.rows
       /\ inflight'[c].res.count = Len(inflight'[c].res.tasks)

\* C6 as claimed: GET /tasks?completed=true returns only completed tasks, and
\* GET /tasks with no parameter returns all tasks of the table, newest first,
\* with count the number returned.
C6_ListReturnsAll ==
    [][\A c \in Conns :
          /\ OnlyCompleted(c)
          /\ ListAnswered(c)
          /\ Listed(c, NoFields)
             => LET rows == inflight'[c].result.rows
                IN  /\ Range(rows) = table
                    /\ NewestFirst(rows)]_vars

\* C6 as amended: GET /tasks?completed=true returns only completed tasks, and
\* GET /tasks with no parameter returns the min(10, n) newest of the n tasks
\* of the table (no task left out is newer than one returned), newest first,
\* with count the number returned.
C6_ListReturnsPage ==
    [][\A c \in Conns :
          /\ OnlyCompleted(c)
          /\ ListAnswered(c)
          /\ Listed(c, NoFields)
             => LET rows == inflight'[c].result.rows
                IN  /\ Range(rows) \subseteq table
                    /\ Cardinality(Range(rows)) = Len(rows)
                    /\ Len(rows) = Min(10, Cardinality(table))
                    /\ \A r \in Range(rows), o \in table \ Range(rows) :
                          r.created_at >= o.created_at
                    /\ NewestFirst(rows)]_vars

\* GET /tasks was answered with 10 tasks of two ages, read from a table of
\* more than 10 tasks.
C6_Witness ==
    \E c \in Conns :
        /\ Done(c, "LIST", 200)
        /\ inflight[c].req.query = NoFields
        /\ inflight[c].res.count = 10
        /\ Range(inflight[c].res.tasks) \subseteq table
        /\ Cardinality(table) > 10
        /\ \E r \in Range(inflight[c].res.tasks), o \in Range(inflight[c].res.tasks) :
              r.created_at # o.created_at

(***************************************************************************)
(* C8.  The statement of a PUT or a DELETE whose id matches no row leaves  *)
(* the table as it was and reports no change, and the callback of a        *)
(* statement that reports no change answers 404.                           *)
(***************************************************************************)
C8_MissingIdLeavesTable ==
    [][\A c \in Conns :
          LET f == inflight[c]
          IN  /\ (Ran(c) /\ f.req.op \in {"PUT", "DELETE"} /\ NoRowHas(f.req.id))
                 => /\ table' = table
                    /\ seq' = seq
                    /\ inflight'[c].result.changes = 0
                    /\ ~inflight'[c].result.err
              /\ (Answered(c) /\ f.req.op \in {"PUT", "DELETE"} /\ f.result.changes = 0)
                 => inflight'[c].res.status = 404]_vars

\* A PUT with a valid body was answered 404 while the table held other rows.
C8_Witness ==
    \E c \in Conns :
        /\ Done(c, "PUT", 404)
        /\ ValidBody(inflight[c].req.body)
        /\ NoRowHas(inflight[c].req.id)
        /\ inflight[c].stmts = 1
        /\ table # {}

(***************************************************************************)
(* C9.  Once a DELETE has answered 200 for an id, the row is gone for      *)
(* good: the statement of every GET and DELETE of that id that runs from   *)
(* then on finds no row, whatever was posted, put or deleted in between,   *)
(* and the callback of a GET or DELETE that found no row answers 404.      *)
(***************************************************************************)
C9_DeletedStaysDeleted ==
    [][/\ \A id \in deleted : id \notin Ids(table')
       /\ \A c \in Conns :
            LET f == inflight[c]
                g == inflight'[c]
            IN  /\ (/\ Ran(c)
                    /\ f.req.op \in {"GET", "DELETE"}
                    /\ \E id \in deleted : IdMatches(id, f.req.id))
                   => /\ table' = table
                      /\ f.req.op = "GET" => g.result.rows = {}
                      /\ f.req.op = "DELETE" => g.result.changes = 0
                /\ (Answered(c) /\ f.req.op = "GET" /\ f.result.rows = {})
                   => g.res = [status |-> 404, message |-> "Task not found"]
                /\ (Answered(c) /\ f.req.op = "DELETE" /\ f.wrote = 0)
                   => g.res = [status |-> 404, message |-> "Task not found"]]_vars

\* A GET of a deleted id, written with a fraction, was answered 404 after a
\* later POST had stored a task.
C9_Witness ==
    \E c \in Conns :
        /\ Done(c, "GET", 404)
        /\ inflight[c].req.id = <<"1", ".", "0">>
        /\ 1 \in deleted
        /\ \E r \in table : r.id > 1

(***************************************************************************)
(* C10.  Under any interleaving, a request has at most one statement and,  *)
(* once answered, exactly one response; the 200 or 201 of a POST, PUT or   *)
(* DELETE is sent after its statement has run, and its effect is in the    *)
(* table for as long as no other statement writes that row.                *)
(***************************************************************************)
Effect(f) ==
    CASE f.req.op = "POST" ->
           \E r \in table : /\ r.id = f.res.id
                            /\ JsStr(r.title) = f.res.title
                            /\ (r.completed = 1) = f.res.completed
      [] f.req.op = "PUT" ->
           \E r \in table : /\ IdMatches(r.id, f.req.id)
                            /\ r.title = Stored(f.req.body.title)
                            /\ (r.completed = 1) = SubmittedCompleted(f.req.body)
      [] OTHER -> NoRowHas(f.req.id)

Succeeded(f) ==
    /\ f.pc = "done"
    /\ f.req.op \in {"POST", "PUT", "DELETE"}
    /\ f.res.status \in {200, 201}

\* C10: at most one statement and exactly one response per request; a write
\* answered 200 or 201 has run its statement, and its effect is in the table
\* until another statement writes that row.
C10_ResponseAfterStatement ==
    \A c \in Conns :
        LET f == inflight[c]
        IN  f.pc # "idle"
            => /\ f.stmts <= 1
               /\ f.sent = IF f.pc = "done" THEN 1 ELSE 0
               /\ Succeeded(f) => (f.stmts = 1 /\ f.wrote # 0 /\ (f.fresh => Effect(f)))

\* Both connections were answered 200 for a write of the same row: the
\* effect of the later one is in the table, the earlier one was overwritten.
C10_Witness ==
    \E c \in Conns, d \in Conns :
        /\ c # d
        /\ Succeeded(inflight[c]) /\ Succeeded(inflight[d])
        /\ inflight[c].req.op = "PUT" /\ inflight[d].req.op = "PUT"
        /\ inflight[c].wrote = inflight[d].wrote
        /\ inflight[c].fresh /\ ~inflight[d].fresh
        /\ inflight[c].req.body # inflight[d].req.body

====
